---- MODULE Spec2Model ----
(***************************************************************************)
(* A model of lazyf1.py: the F1Data aggregation layer (driver standings,   *)
(* constructor standings, race schedule, race results), the LoadingState   *)
(* flag, and the race cursor of RaceResultsWidget.                         *)
(*                                                                         *)
(* The external data source (fastf1) is part of the state: the season      *)
(* schedule, the current time, the result rows of every round, and which   *)
(* fetches raise.                                                          *)
(***************************************************************************)
EXTENDS Integers, Sequences, FiniteSets, TLC

VARIABLES
    schedule,    \* fastf1.get_event_schedule(year): sequence of event rows
    now,         \* datetime.now()
    results,     \* round number -> session.results rows of that round
    schedFail,   \* TRUE: fastf1.get_event_schedule raises
    failing,     \* rounds whose get_session/load raises
    race_index,  \* RaceResultsWidget.race_index
    pc,          \* the F1Data operation in progress, or "idle"
    arg,         \* race_index argument of the get_race_results in progress
    handler,     \* the cursor handler that has counted the completed events
                 \* and has yet to assign, with its count
    cont,        \* TRUE: next_race still has its second assignment to make
    opLoading,   \* LoadingState of the F1Data that runs the operation
    appLoading,  \* LoadingState of F1DashboardApp, the one the widgets watch
    panelFlag,   \* panel -> its is_loading / loading_message attributes
    pending,     \* panels whose on_loading_changed callback is still to run
    races,       \* the rows get_race_schedule has built so far
    reads,       \* the clock read by the `if` of the row in progress, if it failed
    raised,      \* TRUE: the schedule fetch of the operation in progress raised
    entered,     \* the clock as the operation in progress read it on entry
    ret,         \* what the last finished operation returned
    fetched,     \* rounds whose session the last finished operation loaded
    call,        \* the last cursor call: operation, index before, count read
    before,      \* the cursor call before the last one
    appPc,       \* the operation in progress on the app's own F1Data, or "idle"
    appRet,      \* what the last finished operation of the app's F1Data returned
    heard        \* callback -> the last two is_loading values it was called with

vars == <<schedule, now, results, schedFail, failing, race_index, pc, arg,
          handler, cont, opLoading, appLoading, panelFlag, pending, races, reads,
          raised, entered, ret, fetched, call, before, appPc, appRet, heard>>

envVars == <<schedule, now, results, schedFail, failing>>

----------------------------------------------------------------------------
(* Bounds of the model *)

MaxEvents == 5     \* rounds of the season in the failure and cursor models
AggEvents == 3     \* rounds of the season in the aggregation model
AggRows == 3       \* result rows of the whole season in the aggregation model
MaxIndex == 6      \* largest race_index handed to get_race_results directly
SchedEvents == 3   \* events of the schedule in the get_completed_races model
MaxDate == 3       \* latest event date in the get_completed_races model
LoadEvents == 1    \* rounds of the season in the loading-flag model

(* pandas' NaN (Position) is modelled by 0, NaT (Time) by the string "NaT" *)
NaN == 0
NaT == "NaT"

----------------------------------------------------------------------------
(* The data source's tables *)

Win == [Position |-> 1, Points |-> 2, Time |-> "1:31:44"]
Third == [Position |-> 3, Points |-> 1, Time |-> "+8.2s"]
Retired == [Position |-> NaN, Points |-> 0, Time |-> NaT]

Outcomes == {Win, Third, Retired}

ResultRow(d, t, o) ==
    [FirstName |-> d[1], LastName |-> d[2], TeamName |-> t,
     Position |-> o.Position, Points |-> o.Points, Time |-> o.Time]

EventName(r) == "Grand Prix " \o ToString(r)

Event(r, date) ==
    [RoundNumber |-> r, EventName |-> EventName(r),
     Location |-> "Circuit " \o ToString(r),
     EventDate |-> date, Session5DateUtc |-> date]

Season(n) == [r \in 1..n |-> Event(r, r)]

----------------------------------------------------------------------------
(* LoadingState *)

LoadingStateInit == [is_loading |-> FALSE, loading_message |-> ""]

set_loading(is_loading, message) ==
    [is_loading |-> is_loading, loading_message |-> message]

DefaultMessage == "Loading data..."

----------------------------------------------------------------------------
(* Helpers on sequences *)

(* the filter with <= in place of <: an event dated now counts as completed *)
RECURSIVE SelectNotAfter(_, _)
SelectNotAfter(sched, t) ==
    IF sched = <<>> THEN <<>>
    ELSE IF Head(sched).EventDate <= t
         THEN <<Head(sched)>> \o SelectNotAfter(Tail(sched), t)
         ELSE SelectNotAfter(Tail(sched), t)

RECURSIVE SelectCompleted(_, _)
SelectCompleted(sched, t) ==
    IF sched = <<>> THEN <<>>
    ELSE IF Head(sched).EventDate < t
         THEN <<Head(sched)>> \o SelectCompleted(Tail(sched), t)
         ELSE SelectCompleted(Tail(sched), t)

completed_races(sched, t) == SelectCompleted(sched, t)

Last(s) == s[Len(s)]

Rounds(events) == [i \in 1..Len(events) |-> events[i].RoundNumber]

Max2(a, b) == IF a >= b THEN a ELSE b
Min2(a, b) == IF a <= b THEN a ELSE b

----------------------------------------------------------------------------
(* The season dictionaries: a Python dict is a sequence of entries in      *)
(* insertion order.                                                        *)

HasKey(d, k) == \E i \in 1..Len(d) : d[i].key = k

FullName(row) == row.FirstName \o " " \o row.LastName

(* a win counted for every classified finisher on the podium *)
IsPodium(row) == row.Position # NaN /\ row.Position <= 3

IsWin(row) == row.Position = 1

(* the driver's entry overwriting its team with every row *)
AddDriverRowLatestTeam(d, row) ==
    LET driver == FullName(row)
        d1 == IF HasKey(d, driver) THEN d
              ELSE Append(d, [key |-> driver, points |-> 0, wins |-> 0,
                              team |-> row.TeamName])
    IN [i \in 1..Len(d1) |->
          IF d1[i].key = driver
          THEN [d1[i] EXCEPT !.points = @ + row.Points,
                             !.wins = IF IsWin(row) THEN @ + 1 ELSE @,
                             !.team = row.TeamName]
          ELSE d1[i]]

AddDriverRow(d, row) ==
    LET driver == FullName(row)
        d1 == IF HasKey(d, driver) THEN d
              ELSE Append(d, [key |-> driver, points |-> 0, wins |-> 0,
                              team |-> row.TeamName])
    IN [i \in 1..Len(d1) |->
          IF d1[i].key = driver
          THEN [d1[i] EXCEPT !.points = @ + row.Points,
                             !.wins = IF IsWin(row) THEN @ + 1 ELSE @]
          ELSE d1[i]]

get_team_nationality(team_name) ==
    CASE team_name = "Red Bull Racing" -> "Austrian"
      [] team_name = "Mercedes" -> "German"
      [] team_name = "Ferrari" -> "Italian"
      [] team_name = "McLaren" -> "British"
      [] team_name = "Aston Martin" -> "British"
      [] team_name = "Alpine" -> "French"
      [] team_name = "Williams" -> "British"
      [] team_name = "AlphaTauri" -> "Italian"
      [] team_name = "Haas F1 Team" -> "American"
      [] team_name = "Alfa Romeo" -> "Swiss"
      [] team_name = "Racing Bulls" -> "Italian"
      [] team_name = "Kick Sauber" -> "Swiss"
      [] OTHER -> "Unknown"

AddTeamRow(d, row) ==
    LET team == row.TeamName
        d1 == IF HasKey(d, team) THEN d
              ELSE Append(d, [key |-> team, points |-> 0, wins |-> 0,
                              nationality |-> get_team_nationality(team)])
    IN [i \in 1..Len(d1) |->
          IF d1[i].key = team
          THEN [d1[i] EXCEPT !.points = @ + row.Points,
                             !.wins = IF IsWin(row) THEN @ + 1 ELSE @]
          ELSE d1[i]]

RECURSIVE FoldDriverRows(_, _)
FoldDriverRows(d, rows) ==
    IF rows = <<>> THEN d
    ELSE FoldDriverRows(AddDriverRow(d, Head(rows)), Tail(rows))

RECURSIVE FoldTeamRows(_, _)
FoldTeamRows(d, rows) ==
    IF rows = <<>> THEN d
    ELSE FoldTeamRows(AddTeamRow(d, Head(rows)), Tail(rows))

(* The loop over completed_races['RoundNumber']: a round whose load raises *)
(* is skipped by the inner except/continue.                                *)
RECURSIVE drivers_season_points(_, _, _, _)
drivers_season_points(d, rounds, res, bad) ==
    IF rounds = <<>> THEN d
    ELSE IF Head(rounds) \in bad
         THEN drivers_season_points(d, Tail(rounds), res, bad)
         ELSE drivers_season_points(FoldDriverRows(d, res[Head(rounds)]),
                                    Tail(rounds), res, bad)

RECURSIVE teams_data(_, _, _, _)
teams_data(d, rounds, res, bad) ==
    IF rounds = <<>> THEN d
    ELSE IF Head(rounds) \in bad
         THEN teams_data(d, Tail(rounds), res, bad)
         ELSE teams_data(FoldTeamRows(d, res[Head(rounds)]),
                         Tail(rounds), res, bad)

(* sorted(items, key=points, reverse=True): stable, descending.           *)
(* an insertion that puts an entry before the entries of equal points *)
InsertBeforeEqual(s, x) ==
    LET k == Cardinality({i \in 1..Len(s) : s[i].points > x.points})
    IN SubSeq(s, 1, k) \o <<x>> \o SubSeq(s, k + 1, Len(s))

InsertByPoints(s, x) ==
    LET k == Cardinality({i \in 1..Len(s) : s[i].points >= x.points})
    IN SubSeq(s, 1, k) \o <<x>> \o SubSeq(s, k + 1, Len(s))

RECURSIVE SortFrom(_, _)
SortFrom(acc, d) ==
    IF d = <<>> THEN acc
    ELSE SortFrom(InsertByPoints(acc, Head(d)), Tail(d))

sorted_by_points(d) == SortFrom(<<>>, d)

(* enumerate() counts from 0; the row at 0-based place i gets position i + 1 *)
StandingPosition(i) == i + 1

driver_standings_rows(sorted_drivers) ==
    [i \in 1..Len(sorted_drivers) |->
        [position |-> StandingPosition(i - 1),
         driver |-> sorted_drivers[i].key,
         team |-> sorted_drivers[i].team,
         points |-> sorted_drivers[i].points,
         wins |-> sorted_drivers[i].wins]]

team_standings_rows(sorted_teams) ==
    [i \in 1..Len(sorted_teams) |->
        [position |-> StandingPosition(i - 1),
         team |-> sorted_teams[i].key,
         nationality |-> sorted_teams[i].nationality,
         points |-> sorted_teams[i].points,
         wins |-> sorted_teams[i].wins]]

----------------------------------------------------------------------------
(* Sentinel rows *)

NoRacesDriver ==
    <<[position |-> "N/A", driver |-> "No completed races", team |-> "",
       points |-> "", wins |-> ""]>>

ErrorDriver ==
    <<[position |-> "Error", driver |-> "Failed to load data", team |-> "",
       points |-> "", wins |-> ""]>>

NoRacesTeam ==
    <<[position |-> "N/A", team |-> "No completed races", nationality |-> "",
       points |-> "", wins |-> ""]>>

ErrorTeam ==
    <<[position |-> "Error", team |-> "Failed to load data", nationality |-> "",
       points |-> "", wins |-> ""]>>

NoRacesResults ==
    <<[position |-> "N/A", driver |-> "No completed races", team |-> "",
       time |-> "", points |-> ""]>>

ErrorResults ==
    <<[position |-> "Error", driver |-> "Failed to load data", team |-> "",
       time |-> "", points |-> "", race_name |-> "Error"]>>

ErrorSchedule ==
    <<[round |-> "Error", name |-> "Failed to load data", circuit |-> "",
       date |-> "", status |-> ""]>>

----------------------------------------------------------------------------
(* F1Data operations: what each returns, and the sessions it loads. Each   *)
(* fetches the schedule and reads the clock once, on entry: `raised` and   *)
(* `entered` hold what it got then.                                        *)

Outcome(rows, loads) == [rows |-> rows, fetched |-> loads]

get_driver_standings ==
    IF raised THEN Outcome(ErrorDriver, <<>>)
    ELSE LET completed == completed_races(schedule, entered[1])
         IN IF completed = <<>> THEN Outcome(NoRacesDriver, <<>>)
            ELSE LET last_race == Last(completed)
                 IN IF last_race.RoundNumber \in failing
                    THEN Outcome(ErrorDriver, <<last_race.RoundNumber>>)
                    ELSE Outcome(
                           driver_standings_rows(sorted_by_points(
                             drivers_season_points(<<>>, Rounds(completed),
                                                   results, failing))),
                           <<last_race.RoundNumber>> \o Rounds(completed))

(* get_team_standings answering with the failure sentinel when no round   *)
(* contributed a row                                                       *)
get_team_standings_never_empty ==
    IF raised THEN Outcome(ErrorTeam, <<>>)
    ELSE LET completed == completed_races(schedule, entered[1])
             teams == teams_data(<<>>, Rounds(completed), results, failing)
         IN IF completed = <<>> THEN Outcome(NoRacesTeam, <<>>)
            ELSE IF teams = <<>> THEN Outcome(ErrorTeam, Rounds(completed))
            ELSE Outcome(team_standings_rows(sorted_by_points(teams)),
                         Rounds(completed))

get_team_standings ==
    IF raised THEN Outcome(ErrorTeam, <<>>)
    ELSE LET completed == completed_races(schedule, entered[1])
         IN IF completed = <<>> THEN Outcome(NoRacesTeam, <<>>)
            ELSE Outcome(
                   team_standings_rows(sorted_by_points(
                     teams_data(<<>>, Rounds(completed), results, failing))),
                   Rounds(completed))

(* The status of a row: the `if` reads the clock (t1), and when it fails   *)
(* the `elif` reads it again (t2).                                         *)
EventStatus(row, t1, t2) ==
    IF t1 > row.EventDate THEN "Completed"
    ELSE IF t2 > row.Session5DateUtc THEN "In Progress"
    ELSE "Upcoming"

RaceEntry(row, status) ==
    [round |-> row.RoundNumber,
     name |-> row.EventName,
     circuit |-> row.Location,
     date |-> row.EventDate,
     status |-> status]

(* get_race_schedule at its return: the rows its loop has built, or the    *)
(* failure sentinel when the schedule fetch raised                         *)
get_race_schedule ==
    IF raised THEN Outcome(ErrorSchedule, <<>>)
    ELSE Outcome(races, <<>>)

(* get_completed_races: an empty frame when the schedule fetch raises *)
get_completed_races ==
    IF schedFail THEN <<>> ELSE completed_races(schedule, now)

(* get_completed_races as get_race_results called it, on its entry *)
entry_completed_races ==
    IF raised THEN <<>> ELSE completed_races(schedule, entered[1])

(* An argument of get_race_results: None, or an integer *)
NoneArg == [none |-> TRUE, index |-> -1]
IntArg(i) == [none |-> FALSE, index |-> i]

(* the clamp with its upper end one event short *)
ClampIndexShort(race_idx, n) == Max2(0, Min2(race_idx, n - 2))

ClampIndex(race_idx, n) == Max2(0, Min2(race_idx, n - 1))

SelectedRace(completed, a) ==
    IF a.none \/ a.index = -1
    THEN Last(completed)
    ELSE completed[ClampIndex(a.index, Len(completed)) + 1]

FormatResult(row, race_name) ==
    [position |-> IF row.Position # NaN THEN row.Position ELSE "DNF",
     driver |-> FullName(row),
     team |-> row.TeamName,
     time |-> IF row.Time # NaT THEN row.Time ELSE "DNF",
     points |-> row.Points,
     race_name |-> race_name]

race_results_of(completed, a) ==
    IF completed = <<>> THEN Outcome(NoRacesResults, <<>>)
    ELSE LET race == SelectedRace(completed, a)
         IN IF race.RoundNumber \in failing
            THEN Outcome(ErrorResults, <<race.RoundNumber>>)
            ELSE Outcome(
                   [i \in 1..Len(results[race.RoundNumber]) |->
                       FormatResult(results[race.RoundNumber][i],
                                    race.EventName)],
                   <<race.RoundNumber>>)

(* get_race_results over a get_completed_races that lets the schedule      *)
(* fetch's exception through to the outer handler                          *)
get_race_results_raising(a) ==
    IF raised THEN Outcome(ErrorResults, <<>>)
    ELSE race_results_of(completed_races(schedule, entered[1]), a)

get_race_results(a) == race_results_of(entry_completed_races, a)

LoadingMessage(op) ==
    CASE op = "driver_standings" -> "Fetching driver standings..."
      [] op = "team_standings" -> "Fetching team standings..."
      [] op = "race_schedule" -> "Fetching race schedule..."
      [] op = "race_results" -> "Fetching race results..."

(* the set_loading(False) of the return paths, left out on the path of the *)
(* outer except                                                            *)
finish_loading_unless_raised ==
    IF raised THEN set_loading(TRUE, LoadingMessage(pc))
    ELSE set_loading(FALSE, DefaultMessage)

(* every return path ends with loading_state.set_loading(False) *)
finish_loading == set_loading(FALSE, DefaultMessage)

OperationOutcome(op, a) ==
    CASE op = "driver_standings" -> get_driver_standings
      [] op = "team_standings" -> get_team_standings
      [] op = "race_schedule" -> get_race_schedule
      [] op = "race_results" -> get_race_results(a)

----------------------------------------------------------------------------
(* The race cursor *)

(* previous_race with the jump from "latest" one event short *)
previous_race_off_by_one(idx, n) ==
    IF idx = 0 THEN 0
    ELSE IF idx = -1 THEN n - 1
    ELSE Max2(0, idx - 1)

previous_race(idx, n) ==
    IF idx = 0 THEN 0
    ELSE IF idx = -1 THEN n - 2
    ELSE Max2(0, idx - 1)

(* next_race assigns race_index up to twice; each assignment that changes *)
(* the value runs watch_race_index.                                        *)
(* next_race without the bound check on its increment *)
next_race_moved_unguarded(idx, n) ==
    IF idx = -1 THEN -1 ELSE idx + 1

next_race_moved(idx, n) ==
    IF idx = -1 THEN -1
    ELSE IF idx < n - 1 THEN idx + 1 ELSE idx

(* next_race without its snap from the last completed event to "latest" *)
next_race_without_snap(idx, n) == next_race_moved(idx, n)

next_race(idx, n) ==
    IF idx = -1 THEN -1
    ELSE IF next_race_moved(idx, n) = n - 1 THEN -1
    ELSE next_race_moved(idx, n)

----------------------------------------------------------------------------
(* Actions *)

Panels == {"drivers_panel", "teams_panel", "schedule_panel", "results_panel"}

PanelOperation(panel) ==
    CASE panel = "drivers_panel" -> "driver_standings"
      [] panel = "teams_panel" -> "team_standings"
      [] panel = "schedule_panel" -> "race_schedule"
      [] panel = "results_panel" -> "race_results"

NoReturn == [op |-> "none", arg |-> NoneArg, rows |-> <<>>]
NoCall == [op |-> "none", index |-> -1, n |-> 0]
NoHandler == [op |-> "none", n |-> 0]

(* the panels in the order compose() registers their callbacks *)
PanelOrder == <<"drivers_panel", "teams_panel", "schedule_panel", "results_panel">>

(* every callback of the app's LoadingState, in the order of registration: *)
(* the panels, the status bar, the overlay                                 *)
Callbacks == PanelOrder \o <<"status_bar", "global_loading">>

CallbackNames == { Callbacks[i] : i \in 1..Len(Callbacks) }

LastTwo(s) == IF Len(s) > 2 THEN SubSeq(s, Len(s) - 1, Len(s)) ELSE s

Idle ==
    /\ pc = "idle"
    /\ handler = NoHandler
    /\ ~cont
    /\ pending = <<>>
    /\ appPc = "idle"

(* The operation in `pc` runs on the app's own F1Data, whose LoadingState  *)
(* is the shared one; otherwise on a fresh F1Data                          *)
OnApp == appPc # "idle" /\ appLoading.is_loading

(* The first statements inside the operation's try: the schedule is        *)
(* fetched, which may raise, and (but in get_race_schedule) the clock is   *)
(* read, once.                                                             *)
Fetch(op, a) ==
    /\ pc' = op
    /\ arg' = a
    /\ raised' = schedFail
    /\ entered' = IF op = "race_schedule" \/ schedFail THEN <<>> ELSE <<now>>
    /\ fetched' = <<>>
    /\ races' = <<>>
    /\ reads' = <<>>

(* A method of a fresh F1Data is entered: its own LoadingState, which has *)
(* no callbacks, is set to loading, and the schedule is fetched.           *)
Enter(op, a) ==
    /\ opLoading' = set_loading(TRUE, LoadingMessage(op))
    /\ ret' = NoReturn
    /\ Fetch(op, a)

(* <Widget>.update_content, with the panel's race_index and is_loading as *)
(* they are when it runs                                                   *)
update_content(panel, index, is_loading) ==
    IF is_loading
    THEN UNCHANGED <<pc, arg, opLoading, ret, fetched, races, reads, raised,
                     entered>>
    ELSE Enter(PanelOperation(panel), IntArg(index))

(* update_content from the timer, the refresh key or on_mount *)
UpdateContent(panel) ==
    /\ Idle
    /\ update_content(panel, race_index, panelFlag[panel].is_loading)
    /\ UNCHANGED <<race_index, handler, cont, call, before, appLoading, panelFlag,
                   pending, appPc, appRet, heard>>
    /\ UNCHANGED envVars

(* F1Data.get_race_results called with an argument of the caller's choice *)
GetRaceResults(a) ==
    /\ Idle
    /\ Enter("race_results", a)
    /\ UNCHANGED <<race_index, handler, cont, call, before, appLoading, panelFlag,
                   pending, appPc, appRet, heard>>
    /\ UNCHANGED envVars

(* get_race_schedule's loop, the `if` of the next row: it reads the clock *)
ScheduleRowIf ==
    /\ pc = "race_schedule"
    /\ ~raised
    /\ reads = <<>>
    /\ Len(races) < Len(schedule)
    /\ LET row == schedule[Len(races) + 1]
       IN IF now > row.EventDate
          THEN /\ races' = Append(races, RaceEntry(row, EventStatus(row, now, now)))
               /\ reads' = <<>>
          ELSE /\ races' = races
               /\ reads' = <<now>>
    /\ UNCHANGED <<race_index, pc, arg, handler, cont, opLoading, appLoading, panelFlag,
                   pending, raised, entered, ret, fetched, call,
                   before, appPc, appRet, heard>>
    /\ UNCHANGED envVars

(* the `elif` of the row in progress: it reads the clock again *)
ScheduleRowElif ==
    /\ pc = "race_schedule"
    /\ reads # <<>>
    /\ LET row == schedule[Len(races) + 1]
       IN races' = Append(races, RaceEntry(row, EventStatus(row, reads[1], now)))
    /\ reads' = <<>>
    /\ UNCHANGED <<race_index, pc, arg, handler, cont, opLoading, appLoading, panelFlag,
                   pending, raised, entered, ret, fetched, call,
                   before, appPc, appRet, heard>>
    /\ UNCHANGED envVars

(* The operation in progress is at a return: get_race_schedule when its    *)
(* loop is over, or through its except                                     *)
CanReturn ==
    /\ pc # "idle"
    /\ pc = "race_schedule" =>
          (raised \/ (Len(races) = Len(schedule) /\ reads = <<>>))

(* The operation in progress runs to its return: set_loading(False) on its *)
(* F1Data's LoadingState, whose callbacks (the shared one has some) are    *)
(* called before the result is handed back.                                *)
Return ==
    /\ CanReturn
    /\ LET out == OperationOutcome(pc, arg)
           result == [op |-> pc, arg |-> arg, rows |-> out.rows]
       IN /\ fetched' = out.fetched
          /\ IF OnApp
             THEN /\ appRet' = result
                  /\ appLoading' = finish_loading
                  /\ pending' = Callbacks
                  /\ UNCHANGED <<ret, opLoading>>
             ELSE /\ ret' = result
                  /\ opLoading' = finish_loading
                  /\ UNCHANGED <<appRet, appLoading, pending>>
    /\ pc' = "idle"
    /\ races' = <<>>
    /\ reads' = <<>>
    /\ raised' = FALSE
    /\ entered' = <<>>
    /\ UNCHANGED <<arg, race_index, handler, cont, call, before, panelFlag, appPc, heard>>
    /\ UNCHANGED envVars

(* Assigning the reactive race_index: on a change watch_race_index runs    *)
(* update_content, which reads the new value                               *)
SetRaceIndex(value) ==
    /\ race_index' = value
    /\ IF value # race_index
       THEN update_content("results_panel", value,
                           panelFlag["results_panel"].is_loading)
       ELSE UNCHANGED <<pc, arg, opLoading, ret, fetched, races, reads, raised,
                        entered>>

(* previous_race, its first statements: a fresh F1Data's                   *)
(* get_completed_races fetches the schedule and reads the clock            *)
PreviousRace ==
    /\ Idle
    /\ handler' = [op |-> "previous_race", n |-> Len(get_completed_races)]
    /\ UNCHANGED <<race_index, pc, arg, cont, opLoading, appLoading, panelFlag,
                   pending, races, reads, raised, entered, ret, fetched, call,
                   before, appPc, appRet, heard>>
    /\ UNCHANGED envVars

(* previous_race, the rest: the assignment, whose re-render enters         *)
(* get_race_results, which fetches the schedule anew                       *)
PreviousRaceAssign ==
    /\ handler.op = "previous_race"
    /\ handler' = NoHandler
    /\ call' = [op |-> "previous_race", index |-> race_index, n |-> handler.n]
    /\ SetRaceIndex(previous_race(race_index, handler.n))
    /\ before' = call
    /\ UNCHANGED <<cont, appLoading, panelFlag, pending, appPc, appRet, heard>>
    /\ UNCHANGED envVars

(* next_race, its first statements: get_completed_races *)
NextRace ==
    /\ Idle
    /\ handler' = [op |-> "next_race", n |-> Len(get_completed_races)]
    /\ UNCHANGED <<race_index, pc, arg, cont, opLoading, appLoading, panelFlag,
                   pending, races, reads, raised, entered, ret, fetched, call,
                   before, appPc, appRet, heard>>
    /\ UNCHANGED envVars

(* next_race, its increment, or its only assignment when that is the snap *)
NextRaceMove ==
    /\ handler.op = "next_race"
    /\ handler' = NoHandler
    /\ LET n == handler.n
           moved == next_race_moved(race_index, n)
           final == next_race(race_index, n)
       IN /\ call' = [op |-> "next_race", index |-> race_index, n |-> n]
          /\ IF moved # race_index
             THEN /\ SetRaceIndex(moved)
                  /\ cont' = (final # moved)
             ELSE /\ SetRaceIndex(final)
                  /\ cont' = FALSE
    /\ before' = call
    /\ UNCHANGED <<appLoading, panelFlag, pending, appPc, appRet, heard>>
    /\ UNCHANGED envVars

(* The second assignment of next_race, after the first one's re-render *)
NextRaceSnap ==
    /\ pc = "idle"
    /\ cont
    /\ cont' = FALSE
    /\ SetRaceIndex(-1)
    /\ UNCHANGED <<handler, call, before, appLoading, panelFlag, pending, appPc,
                   appRet, heard>>
    /\ UNCHANGED envVars

(* LoadingState.set_loading on the state the app shares with its panels:  *)
(* the attributes are written and the callbacks run, one panel after the   *)
(* other in the order of their registration.                               *)
SetLoading(is_loading, message) ==
    /\ Idle
    /\ appLoading' = set_loading(is_loading, message)
    /\ pending' = Callbacks
    /\ UNCHANGED <<race_index, pc, arg, handler, cont, opLoading, panelFlag, races, reads,
                   raised, entered, ret, fetched, call,
                   before, appPc, appRet, heard>>
    /\ UNCHANGED envVars

(* The next callback of the shared LoadingState is called. A panel's      *)
(* on_loading_changed writes the panel's attributes and calls              *)
(* update_content; the status bar's and the overlay's only redraw.         *)
OnLoadingChanged ==
    /\ pc = "idle"
    /\ ~cont
    /\ pending # <<>>
    /\ heard' = [heard EXCEPT ![Head(pending)] =
                    LastTwo(Append(@, appLoading.is_loading))]
    /\ pending' = Tail(pending)
    /\ IF Head(pending) \in Panels
       THEN /\ panelFlag' = [panelFlag EXCEPT ![Head(pending)] =
                                [is_loading |-> appLoading.is_loading,
                                 loading_message |-> appLoading.loading_message]]
            /\ update_content(Head(pending), race_index, appLoading.is_loading)
       ELSE UNCHANGED <<panelFlag, pc, arg, opLoading, ret, fetched, races,
                        reads, raised, entered>>
    /\ UNCHANGED <<race_index, handler, cont, call, before, appLoading, appPc, appRet>>
    /\ UNCHANGED envVars

(* A method of the app's own F1Data is entered: its LoadingState is the    *)
(* shared one, so set_loading(True, ...) calls every callback before the   *)
(* method goes on.                                                         *)
AppEnter(op, a) ==
    /\ Idle
    /\ appPc' = op
    /\ arg' = a
    /\ appLoading' = set_loading(TRUE, LoadingMessage(op))
    /\ pending' = Callbacks
    /\ appRet' = NoReturn
    /\ UNCHANGED <<race_index, pc, handler, cont, opLoading, panelFlag, races, reads,
                   raised, entered, ret, fetched, call, before, heard>>
    /\ UNCHANGED envVars

(* the callbacks of the entry have returned: the method goes on *)
AppFetch ==
    /\ OnApp
    /\ pc = "idle"
    /\ pending = <<>>
    /\ Fetch(appPc, arg)
    /\ UNCHANGED <<race_index, handler, cont, opLoading, appLoading, panelFlag, pending,
                   ret, call, before, appPc, appRet, heard>>
    /\ UNCHANGED envVars

(* the callbacks of the return have returned, each panel's refresh         *)
(* included: the method hands its result back                              *)
AppReturn ==
    /\ appPc # "idle"
    /\ ~appLoading.is_loading
    /\ pc = "idle"
    /\ ~cont
    /\ pending = <<>>
    /\ appPc' = "idle"
    /\ UNCHANGED <<race_index, pc, arg, handler, cont, opLoading, appLoading, panelFlag,
                   pending, races, reads, raised, entered, ret, fetched, call,
                   before, appRet, heard>>
    /\ UNCHANGED envVars

(* F1Data.get_completed_races called on its own: no loading flag, no      *)
(* session loaded                                                          *)
GetCompletedRaces ==
    /\ Idle
    /\ ret' = [op |-> "completed_races", arg |-> NoneArg,
               rows |-> get_completed_races]
    /\ fetched' = <<>>
    /\ UNCHANGED <<race_index, pc, arg, handler, cont, opLoading, appLoading, panelFlag,
                   pending, races, reads, raised, entered, call, before, appPc,
                   appRet, heard>>
    /\ UNCHANGED envVars

(* The data source: time passes, the schedule fetch breaks or recovers *)
Tick ==
    /\ now < Len(schedule) + 1
    /\ now' = now + 1
    /\ UNCHANGED <<schedule, results, schedFail, failing>>
    /\ UNCHANGED <<race_index, pc, arg, handler, cont, opLoading, appLoading, panelFlag,
                   pending, races, reads, raised, entered, ret, fetched, call,
                   before, appPc, appRet, heard>>

SourceFault ==
    /\ schedFail' = ~schedFail
    /\ UNCHANGED <<schedule, now, results, failing>>
    /\ UNCHANGED <<race_index, pc, arg, handler, cont, opLoading, appLoading, panelFlag,
                   pending, races, reads, raised, entered, ret, fetched, call,
                   before, appPc, appRet, heard>>

----------------------------------------------------------------------------
(* Specifications *)

ProgramInit ==
    /\ race_index = -1
    /\ pc = "idle"
    /\ arg = NoneArg
    /\ handler = NoHandler
    /\ cont = FALSE
    /\ opLoading = LoadingStateInit
    /\ appLoading = LoadingStateInit
    /\ panelFlag = [p \in Panels |->
                       [is_loading |-> FALSE, loading_message |-> "Loading..."]]
    /\ pending = <<>>
    /\ races = <<>>
    /\ reads = <<>>
    /\ raised = FALSE
    /\ entered = <<>>
    /\ ret = NoReturn
    /\ fetched = <<>>
    /\ call = NoCall
    /\ before = NoCall
    /\ appPc = "idle"
    /\ appRet = NoReturn
    /\ heard = [c \in CallbackNames |-> <<>>]

SampleRows == <<ResultRow(<<"Yuki", "Tsunoda">>, "Racing Bulls", Win)>>

(* The dashboard: the cursor keys, the panels' refresh, a season that goes on *)
Init ==
    /\ ProgramInit
    /\ schedule = Season(MaxEvents)
    /\ now \in 1..(MaxEvents + 1)
    /\ results = [r \in 1..MaxEvents |-> SampleRows]
    /\ schedFail = FALSE
    /\ failing = {}

Next ==
    \/ \E panel \in Panels : UpdateContent(panel)
    \/ Return
    \/ PreviousRace
    \/ PreviousRaceAssign
    \/ NextRace
    \/ NextRaceMove
    \/ NextRaceSnap
    \/ ScheduleRowIf
    \/ ScheduleRowElif
    \/ Tick
    \/ SourceFault

Spec == Init /\ [][Next]_vars

(* The dashboard's loading state: set_loading on the LoadingState the app  *)
(* shares with its panels, its callbacks, and the panels' refresh          *)
SharedMessages == {DefaultMessage, LoadingMessage("driver_standings")}

NextShared ==
    \/ \E panel \in Panels : UpdateContent(panel)
    \/ ScheduleRowIf
    \/ ScheduleRowElif
    \/ Return
    \/ \E is_loading \in BOOLEAN : \E message \in SharedMessages :
          SetLoading(is_loading, message)
    \/ OnLoadingChanged

SpecShared == Init /\ [][NextShared]_vars

(* The aggregator against a data source that fails: a season of MaxEvents  *)
(* rounds, any time of the season, any set of rounds whose load raises,    *)
(* the schedule fetch raising or not.                                      *)
RowsA ==
    <<ResultRow(<<"Yuki", "Tsunoda">>, "Racing Bulls", Win),
      ResultRow(<<"Liam", "Lawson">>, "Red Bull Racing", Third)>>

RowsB ==
    <<ResultRow(<<"Liam", "Lawson">>, "Racing Bulls", Win),
      ResultRow(<<"Yuki", "Tsunoda">>, "Red Bull Racing", Retired)>>

FailSeasons ==
    { [r \in 1..MaxEvents |-> IF r % 2 = 1 THEN RowsA ELSE RowsB],
      [r \in 1..MaxEvents |-> IF r % 3 = 1 THEN RowsB ELSE RowsA],
      [r \in 1..MaxEvents |-> IF r % 2 = 1 THEN RowsA ELSE <<>>] }

IndexArgs == {NoneArg} \cup { IntArg(i) : i \in (0 - MaxIndex)..MaxIndex }

InitFail ==
    /\ ProgramInit
    /\ schedule = Season(MaxEvents)
    /\ now \in 1..(MaxEvents + 1)
    /\ results \in FailSeasons
    /\ schedFail \in BOOLEAN
    /\ failing \in SUBSET (1..MaxEvents)

NextFail ==
    \/ \E panel \in Panels : UpdateContent(panel)
    \/ \E a \in IndexArgs : GetRaceResults(a)
    \/ ScheduleRowIf
    \/ ScheduleRowElif
    \/ Return

SpecFail == InitFail /\ [][NextFail]_vars

(* The aggregator over every small season: up to AggEvents completed       *)
(* rounds holding up to AggRows result rows between them, every load       *)
(* succeeding, and one more round dated now.                               *)
AggRowDomain ==
    { ResultRow(<<"Yuki", "Tsunoda">>, "Racing Bulls", o) : o \in Outcomes }
    \cup { ResultRow(<<"Yuki", "Tsunoda">>, "Red Bull Racing", o) : o \in Outcomes }
    \cup { ResultRow(<<"Liam", "Lawson">>, "Red Bull Racing", o) : o \in Outcomes }

NonDecreasing(f, k) == \A i \in 1..k : \A j \in i..k : f[i] <= f[j]

RECURSIVE RowsInRound(_, _, _, _)
RowsInRound(flat, ev, r, i) ==
    IF i > Len(flat) THEN <<>>
    ELSE (IF ev[i] = r THEN <<flat[i]>> ELSE <<>>)
         \o RowsInRound(flat, ev, r, i + 1)

InitAgg ==
    /\ ProgramInit
    /\ schedFail = FALSE
    /\ failing = {}
    /\ \E n \in 1..AggEvents : \E k \in 0..AggRows :
         \E flat \in [1..k -> AggRowDomain] : \E ev \in [1..k -> 1..n] :
            /\ NonDecreasing(ev, k)
            /\ schedule = Season(n + 1)
            /\ now = n + 1
            /\ results = [r \in 1..(n + 1) |->
                            IF r = n + 1 THEN SampleRows
                            ELSE RowsInRound(flat, ev, r, 1)]

NextAgg ==
    \/ UpdateContent("drivers_panel")
    \/ UpdateContent("teams_panel")
    \/ Return

SpecAgg == InitAgg /\ [][NextAgg]_vars

(* get_completed_races over every small schedule: up to SchedEvents events *)
(* in any order of dates, any time, the schedule fetch raising or not      *)
InitSched ==
    /\ ProgramInit
    /\ \E n \in 0..SchedEvents : \E dates \in [1..n -> 1..MaxDate] :
          schedule = [r \in 1..n |-> Event(r, dates[r])]
    /\ now \in 0..(MaxDate + 1)
    /\ results = [r \in 1..SchedEvents |-> SampleRows]
    /\ schedFail \in BOOLEAN
    /\ failing = {}

NextSched ==
    \/ GetCompletedRaces
    \/ PreviousRace
    \/ PreviousRaceAssign
    \/ NextRace
    \/ NextRaceMove
    \/ NextRaceSnap
    \/ Return

SpecSched == InitSched /\ [][NextSched]_vars

(* The loading flags: the four operations called on the app's own F1Data,  *)
(* whose LoadingState is the shared one with its six callbacks, and on the *)
(* fresh F1Data of a panel's refresh. A call that has started goes on to   *)
(* its return: its steps are one synchronous Python call.                  *)
Operations == {"driver_standings", "team_standings", "race_schedule",
               "race_results"}

InitLoad ==
    /\ ProgramInit
    /\ schedule = Season(LoadEvents)
    /\ now \in 1..(LoadEvents + 1)
    /\ results = [r \in 1..LoadEvents |-> SampleRows]
    /\ schedFail \in BOOLEAN
    /\ failing \in SUBSET (1..LoadEvents)

NextLoad ==
    \/ \E op \in Operations : AppEnter(op, NoneArg)
    \/ \E panel \in Panels : UpdateContent(panel)
    \/ OnLoadingChanged
    \/ AppFetch
    \/ ScheduleRowIf
    \/ ScheduleRowElif
    \/ Return
    \/ AppReturn

SpecLoad ==
    /\ InitLoad
    /\ [][NextLoad]_vars
    /\ WF_vars(OnLoadingChanged)
    /\ WF_vars(AppFetch)
    /\ WF_vars(ScheduleRowIf)
    /\ WF_vars(ScheduleRowElif)
    /\ WF_vars(Return)
    /\ WF_vars(AppReturn)

(* The cursor keys over a season whose number of completed events stays   *)
(* as it is                                                                *)
NextCursor ==
    \/ PreviousRace
    \/ PreviousRaceAssign
    \/ NextRace
    \/ NextRaceMove
    \/ NextRaceSnap
    \/ Return

SpecCursor == Init /\ [][NextCursor]_vars

----------------------------------------------------------------------------
(* The race cursor: previous_race and next_race *)

(* C3, as stated: after previous_race, index 0 stays 0, index -1 becomes   *)
(* N - 2 or 0 when N - 2 is negative, any other index i becomes            *)
(* max(0, i - 1).                                                          *)
C3_StepBackClampsAtZero ==
    call.op = "previous_race" =>
        race_index = IF call.index = 0 THEN 0
                     ELSE IF call.index = -1
                          THEN (IF call.n - 2 < 0 THEN 0 ELSE call.n - 2)
                          ELSE Max2(0, call.index - 1)

(* C3, amended: after previous_race, index 0 stays 0, index -1 becomes     *)
(* N - 2 with no clamp (3 for N = 5, -1 for N = 1, -2 for N = 0), and any  *)
(* other index i becomes i - 1, or 0 when i - 1 is negative.               *)
C3_StepBack ==
    call.op = "previous_race" =>
        /\ call.index = 0 => race_index = 0
        /\ call.index = -1 => race_index + 2 = call.n
        /\ call.index \notin {0, -1} =>
              /\ race_index >= 0
              /\ race_index >= call.index - 1
              /\ race_index \in {0, call.index - 1}
        /\ (call.index = -1 /\ call.n = 5) => race_index = 3
        /\ (call.index = -1 /\ call.n = 1) => race_index = -1
        /\ (call.index = -1 /\ call.n = 0) => race_index = -2

C3_Witness ==
    /\ call = [op |-> "previous_race", index |-> -1, n |-> 5]
    /\ race_index = 3
    /\ pc = "race_results"
    /\ arg = IntArg(3)

(* C4, as stated: after next_race, index -1 stays -1, any other index i is *)
(* incremented to i + 1, and set to -1 if i + 1 equals N - 1.              *)
C4_StepForwardAlwaysIncrements ==
    (call.op = "next_race" /\ ~cont) =>
        race_index = IF call.index = -1 THEN -1
                     ELSE IF call.index + 1 = call.n - 1 THEN -1
                     ELSE call.index + 1

(* C4, amended: after next_race, index -1 stays -1; an index i below N - 1 *)
(* is incremented to i + 1, and set to -1 if i + 1 equals N - 1; an index  *)
(* i at or above N - 1 is not incremented: N - 1 becomes -1 and a larger   *)
(* one stays as it is.                                                     *)
C4_StepForward ==
    (call.op = "next_race" /\ ~cont) =>
        /\ call.index = -1 => race_index = -1
        /\ (call.index # -1 /\ call.index < call.n - 1) =>
              race_index = IF call.index + 2 = call.n THEN -1
                           ELSE call.index + 1
        /\ (call.index # -1 /\ call.index = call.n - 1) => race_index = -1
        /\ (call.index # -1 /\ call.index > call.n - 1) =>
              race_index = call.index
        /\ (call.index = 3 /\ call.n = 5) => race_index = -1

C4_Witness ==
    /\ call = [op |-> "next_race", index |-> 3, n |-> 5]
    /\ ~cont
    /\ race_index = -1
    /\ ret.op = "race_results"
    /\ ret.arg = IntArg(-1)

----------------------------------------------------------------------------
(* The loading flag *)

(* C10: whenever an operation started by a panel refresh is in progress,   *)
(* the shared loading flag the registered readers observe is true with that *)
(* operation's message.                                                    *)
C10_SharedFlagFollowsOperation ==
    pc # "idle" =>
        /\ appLoading = set_loading(TRUE, LoadingMessage(pc))
        /\ \A p \in Panels :
              /\ panelFlag[p].is_loading
              /\ panelFlag[p].loading_message = LoadingMessage(pc)

----------------------------------------------------------------------------
(* Sentinels and failures *)

NameField(row, op) ==
    CASE op = "team_standings" -> row.team
      [] op = "race_schedule" -> row.name
      [] OTHER -> row.driver

IsFailureSentinel(r) ==
    /\ Len(r.rows) = 1
    /\ NameField(r.rows[1], r.op) = "Failed to load data"

IsNoRacesSentinel(r) ==
    /\ Len(r.rows) = 1
    /\ NameField(r.rows[1], r.op) = "No completed races"

NoEventBeforeNow == \A i \in 1..Len(schedule) : schedule[i].EventDate >= now

EventsBeforeNow == {i \in 1..Len(schedule) : schedule[i].EventDate < now}

KeyOf(row, op) == IF op = "team_standings" THEN row.TeamName ELSE FullName(row)

(* the rows of the rounds in `rounds`, in schedule order *)
RECURSIVE RowsOf(_, _)
RowsOf(i, rounds) ==
    IF i > Len(schedule) THEN <<>>
    ELSE (IF schedule[i].RoundNumber \in rounds
          THEN results[schedule[i].RoundNumber] ELSE <<>>)
         \o RowsOf(i + 1, rounds)

RECURSIVE SumPoints(_, _, _)
SumPoints(rows, k, op) ==
    IF rows = <<>> THEN 0
    ELSE (IF KeyOf(Head(rows), op) = k THEN Head(rows).Points ELSE 0)
         + SumPoints(Tail(rows), k, op)

RECURSIVE CountFirsts(_, _, _)
CountFirsts(rows, k, op) ==
    IF rows = <<>> THEN 0
    ELSE (IF KeyOf(Head(rows), op) = k /\ Head(rows).Position = 1 THEN 1 ELSE 0)
         + CountFirsts(Tail(rows), k, op)

KeysOf(rows, op) == { KeyOf(rows[i], op) : i \in 1..Len(rows) }

(* the standings rows r.rows carry, one per key of `rows`, that key's sum *)
(* of points and count of first places over `rows`                        *)
TotalsMatch(r, rows) ==
    /\ { NameField(r.rows[i], r.op) : i \in 1..Len(r.rows) } = KeysOf(rows, r.op)
    /\ Len(r.rows) = Cardinality(KeysOf(rows, r.op))
    /\ \A i \in 1..Len(r.rows) :
          /\ r.rows[i].points = SumPoints(rows, NameField(r.rows[i], r.op), r.op)
          /\ r.rows[i].wins = CountFirsts(rows, NameField(r.rows[i], r.op), r.op)

(* C1: with five completed events of which exactly one fails to load,      *)
(* whichever it is, get_driver_standings and get_team_standings return the *)
(* standings accumulated from the other four, not the failure sentinel.    *)
C1_FailureIsolation ==
    ( /\ ret.op \in {"driver_standings", "team_standings"}
      /\ ~schedFail
      /\ Cardinality(EventsBeforeNow) = 5
      /\ Cardinality(failing \cap EventsBeforeNow) = 1 )
    => /\ ~IsFailureSentinel(ret)
       /\ TotalsMatch(ret, RowsOf(1, EventsBeforeNow \ failing))

(* C5, as stated: a failed schedule fetch in the standings operations or   *)
(* in get_race_results, or a failed fetch of the selected event in         *)
(* get_race_results, returns the one-row failure sentinel; 'No completed   *)
(* races' is returned only when the schedule was fetched and holds no      *)
(* completed event.                                                        *)
C5_FailureNeverReadsAsNoRaces ==
    ret.op \in {"driver_standings", "team_standings", "race_results"} =>
        /\ schedFail => IsFailureSentinel(ret)
        /\ (ret.op = "race_results" /\ fetched # <<>> /\ fetched[1] \in failing)
              => IsFailureSentinel(ret)
        /\ IsNoRacesSentinel(ret) => (~schedFail /\ NoEventBeforeNow)

(* C5, amended: a failed schedule fetch in get_driver_standings or         *)
(* get_team_standings, or a failed fetch of the selected event in          *)
(* get_race_results, returns the one-row failure sentinel; a failed        *)
(* schedule fetch in get_race_results returns the one-row 'No completed    *)
(* races' sentinel; 'No completed races' is returned only when the         *)
(* schedule was fetched and holds no completed event or, in                *)
(* get_race_results, when the schedule fetch failed.                       *)
C5_FailureSentinel ==
    ret.op \in {"driver_standings", "team_standings", "race_results"} =>
        /\ (schedFail /\ ret.op # "race_results") => IsFailureSentinel(ret)
        /\ (schedFail /\ ret.op = "race_results") =>
              (IsNoRacesSentinel(ret) /\ ~IsFailureSentinel(ret))
        /\ (ret.op = "race_results" /\ fetched # <<>> /\ fetched[1] \in failing)
              => IsFailureSentinel(ret)
        /\ IsNoRacesSentinel(ret) =>
              \/ ~schedFail /\ NoEventBeforeNow
              \/ schedFail /\ ret.op = "race_results"

C5_Witness ==
    /\ ret.op = "race_results"
    /\ schedFail
    /\ ~NoEventBeforeNow
    /\ ret.rows = NoRacesResults

(* C6: with the schedule fetched and no event dated before now,            *)
(* get_driver_standings, get_team_standings and get_race_results (whatever *)
(* its index argument) return exactly one 'No completed races' row and     *)
(* load no session.                                                        *)
C6_NoCompletedRaces ==
    ( /\ ret.op \in {"driver_standings", "team_standings", "race_results"}
      /\ ~schedFail
      /\ NoEventBeforeNow )
    => /\ Len(ret.rows) = 1
       /\ NameField(ret.rows[1], ret.op) = "No completed races"
       /\ ret.rows[1].position = "N/A"
       /\ fetched = <<>>

C6_Witness ==
    /\ ret.op = "race_results"
    /\ ret.arg = IntArg(2)
    /\ ~schedFail
    /\ NoEventBeforeNow
    /\ failing # {}
    /\ ret.rows = NoRacesResults
    /\ fetched = <<>>

----------------------------------------------------------------------------
(* Standings *)

IsStandings(r) ==
    /\ r.op \in {"driver_standings", "team_standings"}
    /\ ~IsFailureSentinel(r)
    /\ ~IsNoRacesSentinel(r)

(* the rows of the completed rounds that load, in schedule order *)
LoadedRows == RowsOf(1, EventsBeforeNow \ failing)

(* the place in `rows` where key k is first and last seen *)
FirstSeen(rows, k, op) ==
    CHOOSE i \in 1..Len(rows) :
        /\ KeyOf(rows[i], op) = k
        /\ \A j \in 1..(i - 1) : KeyOf(rows[j], op) # k

LastSeen(rows, k, op) ==
    CHOOSE i \in 1..Len(rows) :
        /\ KeyOf(rows[i], op) = k
        /\ \A j \in (i + 1)..Len(rows) : KeyOf(rows[j], op) # k

(* C2, as stated: the team of a driver's standing entry is the team of the *)
(* most recently seen result row of that driver.                           *)
C2_TeamIsLastSeen ==
    (ret.op = "driver_standings" /\ IsStandings(ret)) =>
        \A i \in 1..Len(ret.rows) :
            ret.rows[i].team =
                LoadedRows[LastSeen(LoadedRows, ret.rows[i].driver, ret.op)].TeamName

(* C2, amended: the team of a driver's standing entry is the team of the   *)
(* first result row seen of that driver: for a driver who appears with     *)
(* team T1 in an earlier completed event and with team T2 in a later one,  *)
(* the entry's team is T1.                                                 *)
C2_TeamIsFirstSeen ==
    (ret.op = "driver_standings" /\ IsStandings(ret)) =>
        \A i \in 1..Len(ret.rows) :
            ret.rows[i].team =
                LoadedRows[FirstSeen(LoadedRows, ret.rows[i].driver, ret.op)].TeamName

C2_Witness ==
    /\ ret.op = "driver_standings"
    /\ Len(results[1]) = 1
    /\ Len(results[2]) = 1
    /\ FullName(results[1][1]) = "Yuki Tsunoda"
    /\ FullName(results[2][1]) = "Yuki Tsunoda"
    /\ results[1][1].TeamName = "Racing Bulls"
    /\ results[2][1].TeamName = "Red Bull Racing"
    /\ now > 2
    /\ Len(ret.rows) >= 1
    /\ ret.rows[1].driver = "Yuki Tsunoda"
    /\ ret.rows[1].team = "Racing Bulls"

(* C7: the standings are the accumulated entries in a stable sort by       *)
(* points descending: points never increase down the list, entries of      *)
(* equal points keep the order in which their key was first seen in        *)
(* schedule order, and the k-th entry has position k.                      *)
C7_StableSortByPoints ==
    IsStandings(ret) =>
        /\ \A i \in 1..Len(ret.rows) : ret.rows[i].position = i
        /\ \A i \in 1..Len(ret.rows) : \A j \in (i + 1)..Len(ret.rows) :
              /\ ret.rows[i].points >= ret.rows[j].points
              /\ ret.rows[i].points = ret.rows[j].points =>
                    FirstSeen(LoadedRows, NameField(ret.rows[i], ret.op), ret.op)
                      < FirstSeen(LoadedRows, NameField(ret.rows[j], ret.op), ret.op)

(* two entries level on points, the one first seen being second by name *)
C7_Witness ==
    /\ ret.op = "driver_standings"
    /\ Len(ret.rows) = 2
    /\ ret.rows[1].points = ret.rows[2].points
    /\ ret.rows[1].points > 0
    /\ ret.rows[1].driver = "Yuki Tsunoda"
    /\ ret.rows[2].driver = "Liam Lawson"
    /\ ret.rows[2].position = 2

(* C8: when every completed event loads, each standing entry's points are  *)
(* the sum of the points of all its result rows over all completed events, *)
(* and its wins the number of those rows whose position is exactly 1.      *)
C8_PointsAndWins ==
    (IsStandings(ret) /\ failing = {}) => TotalsMatch(ret, LoadedRows)

(* first, first and third in three events: two wins, the points of all three *)
C8_Witness ==
    /\ ret.op = "driver_standings"
    /\ now = 4
    /\ \A r \in 1..3 : /\ Len(results[r]) = 1
                       /\ FullName(results[r][1]) = "Liam Lawson"
    /\ results[1][1].Position = 1
    /\ results[2][1].Position = 1
    /\ results[3][1].Position = 3
    /\ Len(ret.rows) = 1
    /\ ret.rows[1].wins = 2
    /\ ret.rows[1].points = 5

----------------------------------------------------------------------------
(* Race results *)

(* C9: with N >= 1 completed events, get_race_results selects the last     *)
(* completed event for index -1 or None and otherwise the completed event  *)
(* at place max(0, min(index, N - 1)), for every integer index; the rows   *)
(* returned are that event's rows in source order, each with the event's   *)
(* name.                                                                   *)
ExpectedPlace(a, n) ==
    IF a.none THEN n
    ELSE IF a.index = -1 THEN n
    ELSE IF a.index < 0 THEN 1
    ELSE IF a.index >= n THEN n
    ELSE a.index + 1

C9_SelectedEvent ==
    ( /\ ret.op = "race_results"
      /\ ~schedFail
      /\ ~NoEventBeforeNow )
    => LET n == Cardinality(EventsBeforeNow)
           event == schedule[ExpectedPlace(ret.arg, n)]
           rows == results[event.RoundNumber]
       IN /\ fetched = <<event.RoundNumber>>
          /\ event.RoundNumber \notin failing =>
               /\ Len(ret.rows) = Len(rows)
               /\ \A i \in 1..Len(rows) :
                     /\ ret.rows[i].driver = FullName(rows[i])
                     /\ ret.rows[i].team = rows[i].TeamName
                     /\ ret.rows[i].points = rows[i].Points
                     /\ ret.rows[i].race_name = event.EventName
          /\ (ret.arg = IntArg(-1) \/ ret.arg = IntArg(n - 1) \/ ret.arg = NoneArg)
               => fetched = <<schedule[n].RoundNumber>>

C9_Witness ==
    /\ ret.op = "race_results"
    /\ ret.arg = IntArg(0 - 2)
    /\ ~schedFail
    /\ now = 4
    /\ failing = {2}
    /\ fetched = <<1>>
    /\ results[1] = RowsB
    /\ Len(ret.rows) = 2
    /\ ret.rows[1].race_name = "Grand Prix 1"
    /\ ret.rows[1].driver = "Liam Lawson"
    /\ ret.rows[2].driver = "Yuki Tsunoda"

----------------------------------------------------------------------------
(* Completed events *)

(* C12: get_completed_races returns exactly the events of the schedule     *)
(* dated strictly before now, in schedule order (the j-th event returned   *)
(* is the j-th such event of the schedule; an event dated now or later is  *)
(* left out), and the empty sequence when the schedule fetch raises; the   *)
(* cursor handlers read its length as their count N.                       *)
C12_CompletedEvents ==
    /\ ret.op = "completed_races" =>
          IF schedFail THEN ret.rows = <<>>
          ELSE /\ Len(ret.rows) = Cardinality(EventsBeforeNow)
               /\ \A j \in 1..Len(ret.rows) :
                     \E i \in EventsBeforeNow :
                        /\ ret.rows[j] = schedule[i]
                        /\ Cardinality({m \in EventsBeforeNow : m <= i}) = j
               /\ \A j \in 1..Len(ret.rows) : ret.rows[j].EventDate < now
    /\ call.op # "none" =>
          call.n = IF schedFail THEN 0 ELSE Cardinality(EventsBeforeNow)

(* dates 2, 3, 1 and now = 3: the first and the third event, in that order *)
C12_Witness ==
    /\ ret.op = "completed_races"
    /\ ~schedFail
    /\ now = 3
    /\ Len(schedule) = 3
    /\ schedule[1].EventDate = 2
    /\ schedule[2].EventDate = 3
    /\ schedule[3].EventDate = 1
    /\ Len(ret.rows) = 2
    /\ ret.rows[1].RoundNumber = 1
    /\ ret.rows[2].RoundNumber = 3

----------------------------------------------------------------------------
(* The cursor's range and round trips *)

(* C13: with a number N >= 1 of completed events that stays as it is, and  *)
(* the cursor starting at -1, after any sequence of finished previous_race *)
(* and next_race calls the index is -1 or within 0..N-2: never below -1,   *)
(* never N - 1.                                                            *)
C13_CanonicalRange ==
    (~cont /\ Cardinality(EventsBeforeNow) >= 1) =>
        /\ race_index >= -1
        /\ race_index # Cardinality(EventsBeforeNow) - 1
        /\ race_index \in {-1} \cup (0..(Cardinality(EventsBeforeNow) - 2))

(* the top of the range, N - 2, reached by next_race without a snap *)
C13_Witness ==
    /\ call = [op |-> "next_race", index |-> 2, n |-> 5]
    /\ before.op = "previous_race"
    /\ ~cont
    /\ race_index = 3
    /\ Cardinality(EventsBeforeNow) = 5

(* C16: with N >= 2 completed events, next_race followed by previous_race  *)
(* brings every index of 0..N-2 back to itself, and previous_race followed *)
(* by next_race brings -1 back to -1.                                      *)
C16_RoundTrip ==
    /\ ( /\ ~cont
         /\ before.op = "next_race"
         /\ call.op = "previous_race"
         /\ before.n >= 2
         /\ call.n = before.n
         /\ before.index \in 0..(before.n - 2) )
       => race_index = before.index
    /\ ( /\ ~cont
         /\ before.op = "previous_race"
         /\ call.op = "next_race"
         /\ before.n >= 2
         /\ call.n = before.n
         /\ before.index = -1 )
       => race_index = -1

(* forward from N - 2 snaps to "latest", back from "latest" lands on N - 2 *)
C16_Witness ==
    /\ before = [op |-> "next_race", index |-> 3, n |-> 5]
    /\ call = [op |-> "previous_race", index |-> -1, n |-> 5]
    /\ ~cont
    /\ race_index = 3

----------------------------------------------------------------------------
(* Empty results *)

(* the last completed event of the schedule *)
LastBeforeNow ==
    CHOOSE i \in EventsBeforeNow : \A j \in EventsBeforeNow : j <= i

(* C14, as stated: with at least one completed event, get_driver_standings, *)
(* get_team_standings and get_race_results never return an empty sequence, *)
(* whichever loads fail and whichever events have no rows; when no event   *)
(* contributes a row the standings are a single sentinel entry.            *)
C14_NeverEmpty ==
    ( /\ ret.op \in {"driver_standings", "team_standings", "race_results"}
      /\ ~schedFail
      /\ ~NoEventBeforeNow )
    => /\ Len(ret.rows) >= 1
       /\ (ret.op # "race_results" /\ LoadedRows = <<>>) =>
             (IsFailureSentinel(ret) \/ IsNoRacesSentinel(ret))

(* C14, amended: with at least one completed event the three operations    *)
(* return normally, but the sequence can be empty: get_team_standings      *)
(* returns one entry per team seen in the events that load, so the empty   *)
(* sequence when none of them contributes a row (every load failing        *)
(* included); get_driver_standings returns the failure sentinel when the   *)
(* load of the last completed event fails and otherwise one entry per      *)
(* driver seen, so the empty sequence when no row was seen;                *)
(* get_race_results returns the failure sentinel when the load of the      *)
(* selected event fails and otherwise one row per result row, so the empty *)
(* sequence for an event with no rows.                                     *)
C14_EmptyWhenNoRows ==
    ( /\ ret.op \in {"driver_standings", "team_standings", "race_results"}
      /\ ~schedFail
      /\ ~NoEventBeforeNow )
    => /\ ret.op = "team_standings" =>
             /\ ~IsFailureSentinel(ret)
             /\ ~IsNoRacesSentinel(ret)
             /\ Len(ret.rows) = Cardinality(KeysOf(LoadedRows, ret.op))
             /\ LoadedRows = <<>> => ret.rows = <<>>
       /\ ret.op = "driver_standings" =>
             IF schedule[LastBeforeNow].RoundNumber \in failing
             THEN IsFailureSentinel(ret)
             ELSE /\ ~IsFailureSentinel(ret)
                  /\ ~IsNoRacesSentinel(ret)
                  /\ Len(ret.rows) = Cardinality(KeysOf(LoadedRows, ret.op))
                  /\ LoadedRows = <<>> => ret.rows = <<>>
       /\ ret.op = "race_results" =>
             /\ Len(fetched) = 1
             /\ IF fetched[1] \in failing
                THEN IsFailureSentinel(ret)
                ELSE Len(ret.rows) = Len(results[fetched[1]])

(* three completed events, every load failing: team standings are empty *)
C14_Witness ==
    /\ ret.op = "team_standings"
    /\ ~schedFail
    /\ now = 4
    /\ failing = {1, 2, 3}
    /\ fetched = <<1, 2, 3>>
    /\ ret.rows = <<>>

----------------------------------------------------------------------------
(* The loading flag of the F1Data that runs an operation *)

(* the LoadingState of the F1Data that runs the operation in `pc` *)
RunningLoadingState == IF OnApp THEN appLoading ELSE opLoading

(* C15: get_driver_standings, get_team_standings, get_race_schedule and    *)
(* get_race_results set the loading flag of their F1Data's LoadingState    *)
(* with their message on entry and clear it on every return path (rows,    *)
(* 'No completed races', failure sentinel). Hence: the flag is set while   *)
(* the operation runs and stays so until its return clears it; a set flag  *)
(* is always cleared later; the flag is clear whenever no operation of     *)
(* that F1Data is running; every registered callback is called with true   *)
(* before the operation's body runs and with false before it hands its     *)
(* result back, in that order.                                             *)
C15_LoadingBracket ==
    /\ [](pc # "idle" =>
            RunningLoadingState = set_loading(TRUE, LoadingMessage(pc)))
    /\ [](pc = "idle" => ~opLoading.is_loading)
    /\ [](appPc = "idle" => ~appLoading.is_loading)
    /\ [](ret.op # "none" => opLoading = set_loading(FALSE, DefaultMessage))
    /\ [](appRet.op # "none" => appLoading = set_loading(FALSE, DefaultMessage))
    /\ [][opLoading.is_loading =>
             \/ opLoading' = opLoading /\ pc' = pc
             \/ ~opLoading'.is_loading /\ pc' = "idle" /\ ret'.op = pc]_vars
    /\ [][appLoading.is_loading =>
             \/ appLoading' = appLoading /\ appPc' = appPc
             \/ ~appLoading'.is_loading /\ pc' = "idle" /\ appRet'.op = pc]_vars
    /\ (opLoading.is_loading ~> ~opLoading.is_loading)
    /\ (appLoading.is_loading ~> ~appLoading.is_loading)
    /\ []((OnApp /\ pc # "idle") =>
            \A c \in CallbackNames : Last(heard[c]) = TRUE)
    /\ []((appPc = "idle" /\ appRet.op # "none") =>
            \A c \in CallbackNames : heard[c] = <<TRUE, FALSE>>)
    /\ \A c \in CallbackNames :
          appLoading.is_loading ~> (appPc = "idle" /\ heard[c] = <<TRUE, FALSE>>)

(* get_race_schedule of the app's F1Data returned through its except path: *)
(* the flag cleared, every callback called with true and then with false,  *)
(* the panels refreshed on the way                                         *)
C15_Witness ==
    /\ appPc = "idle"
    /\ appRet.op = "race_schedule"
    /\ schedFail
    /\ IsFailureSentinel(appRet)
    /\ appLoading = [is_loading |-> FALSE, loading_message |-> "Loading data..."]
    /\ \A c \in CallbackNames : heard[c] = <<TRUE, FALSE>>
    /\ ret.op = "race_results"
    /\ opLoading = [is_loading |-> FALSE, loading_message |-> "Loading data..."]

====
